---- MODULE Spec2Model ----
(***************************************************************************)
(* A model of the retrieval-augmented generation core of esg-copilot:      *)
(* the chunker (VectorStore._chunk_content, DocumentProcessor.chunk_content)*)
(* the vector store wrapper (VectorStore) and the response generator       *)
(* (AIService.generate_response).                                          *)
(*                                                                         *)
(* Strings are sequences of one-character strings.  Distances and          *)
(* confidence scores are integers counting hundredths.                     *)
(***************************************************************************)
EXTENDS Integers, Sequences, FiniteSets, TLC

(***************************************************************************)
(* Bounds of the model.                                                    *)
(***************************************************************************)
\* longest text the chunker is run on with small window sizes
MaxLen == 6
\* largest chunk_size tried with the small texts (overlap ranges below it)
MaxChunkSize == 5
\* iterations of the chunking loop that are followed (the loop of the code
\* has no such bound; a run that reaches it is still looping)
MaxChunks == 8

\* comma-separated pieces of a framework_focus string
MaxFrameworks == 2
\* entries of the JSON list the LLM may answer the request for actions with
MaxLLMActions == 4

\* the default parameters of both chunkers
DefaultChunkSize == 1000
DefaultOverlap == 200

\* the characters of the small texts: a letter, a period, and a newline (which
\* is both a sentence boundary and whitespace)
Chars == {"a", ".", "\n"}
Whitespace == {" ", "\n"}

Min(a, b) == IF a < b THEN a ELSE b
Max(a, b) == IF a > b THEN a ELSE b

(***************************************************************************)
(* Python's str operations used by the chunkers.                           *)
(***************************************************************************)
\* s[lo:hi]: negative indices count from the end, both are clamped
PySlice(s, lo, hi) ==
    LET n == Len(s)
        l == IF lo < 0 THEN Max(lo + n, 0) ELSE Min(lo, n)
        h == IF hi < 0 THEN Max(hi + n, 0) ELSE Min(hi, n)
    IN  IF l >= h THEN <<>> ELSE SubSeq(s, l + 1, h)

\* s.rfind(c): the 0-based index of the last c in s, -1 when there is none
RFind(s, c) ==
    IF \A i \in 1..Len(s) : s[i] # c THEN -1
    ELSE (CHOOSE i \in 1..Len(s) :
              s[i] = c /\ \A j \in (i + 1)..Len(s) : s[j] # c) - 1

\* s.strip(): s without its leading and trailing whitespace
Strip(s) ==
    IF \A i \in 1..Len(s) : s[i] \in Whitespace THEN <<>>
    ELSE SubSeq(s,
                CHOOSE i \in 1..Len(s) :
                    s[i] \notin Whitespace /\ \A j \in 1..(i - 1) : s[j] \in Whitespace,
                CHOOSE i \in 1..Len(s) :
                    s[i] \notin Whitespace /\ \A j \in (i + 1)..Len(s) : s[j] \in Whitespace)

(***************************************************************************)
(* One iteration of the chunking loop, for the window starting at `s`:     *)
(* the chunk appended, the window end after the sentence-boundary          *)
(* adjustment, and the next start.                                         *)
(***************************************************************************)
BreakPoint(chunk) == Max(RFind(chunk, "."), RFind(chunk, "\n"))

Adjusts(c, s, cs) ==
    /\ s + cs < Len(c)
    /\ BreakPoint(PySlice(c, s, s + cs)) > s + (cs \div 2)

ChunkEnd(c, s, cs) ==
    IF Adjusts(c, s, cs)
    THEN s + BreakPoint(PySlice(c, s, s + cs)) + 1
    ELSE s + cs

ChunkText(c, s, cs) == Strip(PySlice(c, s, ChunkEnd(c, s, cs)))

NextStart(c, s, cs, ov) == ChunkEnd(c, s, cs) - ov

\* the whole loop as a function of its input, for the callers that use the
\* list of chunks; `fuel` bounds the iterations followed
RECURSIVE ChunkLoop(_, _, _, _, _)
ChunkLoop(c, s, cs, ov, fuel) ==
    IF s < Len(c) /\ fuel > 0
    THEN <<ChunkText(c, s, cs)>> \o ChunkLoop(c, NextStart(c, s, cs, ov), cs, ov, fuel - 1)
    ELSE <<>>

VARIABLES
    chunker,      \* which of the two chunkers runs: "vector_store" or "document_processor"
    content,      \* the text being chunked
    chunk_size,
    overlap,
    start,        \* the loop's window start
    chunks,       \* the list built so far
    windows,      \* for each chunk, the <<start, end>> of the window it was cut from
    cpc           \* "loop" while the while-loop runs, "done" once chunks is returned

chunkVars == <<chunker, content, chunk_size, overlap, start, chunks, windows, cpc>>

VARIABLES
    collection,   \* the chromadb collection: chunk id -> [document, metadata]
    dup_policy,   \* what Collection.add does with an id it already holds
    ret           \* the last VectorStore call and what it returned

indexVars == <<collection, dup_policy, ret>>

VARIABLES
    query,             \* generate_response's arguments
    context_in,        \*   context_documents as passed (None and [] are <<>>)
    framework_focus,   \*   None, or the string split at its commas
    gpc,               \* where generate_response is
    frameworks,        \* its locals
    fw_i,              \*   how many elements of `frameworks` the for loop has done
    all_context_docs,
    context_documents,
    ai_response,
    llm_error,         \*   the exception the except clause caught, "none" if none
    action_reply,      \*   what the second LLM call gave
    distances,              \* the distance of the query to each entry, once embedded
    issued,            \* the vector store queries issued, in order
    clock,             \* time.time() - start_time
    response,          \* the dict returned
    context,           \*   what _build_context returned
    prompt_template    \*   what _select_prompt_template returned

genVars == <<query, context_in, framework_focus, gpc, frameworks, fw_i,
             all_context_docs, context_documents, ai_response, llm_error,
             action_reply, distances, issued, clock, response,
             context, prompt_template>>

vars == <<chunkVars, indexVars, genVars>>

(***************************************************************************)
(* The inputs of the chunker.                                              *)
(***************************************************************************)
RECURSIVE TextsOfLen(_)
TextsOfLen(n) ==
    IF n = 0 THEN {<<>>}
    ELSE {Append(t, ch) : t \in TextsOfLen(n - 1), ch \in Chars}

SmallTexts == UNION {TextsOfLen(n) : n \in 0..MaxLen}

SmallParams == {p \in (1..MaxChunkSize) \X (1..MaxChunkSize) : p[1] > p[2]}

\* a text of `n` letters with the characters of `marks` (position -> character)
\* put at their 0-based positions
MarkedText(n, marks) ==
    [i \in 1..n |-> IF (i - 1) \in DOMAIN marks THEN marks[i - 1] ELSE "a"]

\* documents of the 2,500-character scenario
ScenarioLen == Len([i \in 1..2500 |-> "a"])

ScenarioTexts ==
    { MarkedText(ScenarioLen, <<>>),
      MarkedText(ScenarioLen, (900 :> ".")),
      MarkedText(ScenarioLen, (799 :> " ") @@ (800 :> " ") @@ (1700 :> "\n")) }

ChunkInputs ==
    {<<t, p[1], p[2]>> : t \in SmallTexts, p \in SmallParams}
      \cup {<<t, DefaultChunkSize, DefaultOverlap>> : t \in ScenarioTexts}

\* the vector store before any call
IndexIdle ==
    /\ collection = <<>>
    /\ dup_policy = "ignore"
    /\ ret = [op |-> "none"]

\* no generate_response call
GenIdle ==
    /\ query = <<>> /\ context_in = <<>> /\ framework_focus = <<>>
    /\ gpc = "idle" /\ frameworks = <<>> /\ fw_i = 0
    /\ all_context_docs = <<>> /\ context_documents = <<>>
    /\ ai_response = <<>> /\ llm_error = "none" /\ action_reply = [kind |-> "none"]
    /\ distances = <<>> /\ issued = <<>> /\ clock = 0 /\ response = [kind |-> "none"]
    /\ context = <<>> /\ prompt_template = [template |-> "none"]

InitChunk ==
    /\ chunker \in {"vector_store", "document_processor"}
    /\ \E inp \in ChunkInputs :
          /\ content = inp[1]
          /\ chunk_size = inp[2]
          /\ overlap = inp[3]
    /\ start = 0
    /\ chunks = <<>>
    /\ windows = <<>>
    /\ cpc = "loop"
    /\ IndexIdle
    /\ GenIdle

\* one pass through the body of the while loop
ChunkBody ==
    /\ cpc = "loop"
    /\ start < Len(content)
    /\ Len(chunks) < MaxChunks
    /\ chunks' = Append(chunks, ChunkText(content, start, chunk_size))
    /\ windows' = Append(windows, <<start, ChunkEnd(content, start, chunk_size)>>)
    /\ start' = NextStart(content, start, chunk_size, overlap)
    /\ cpc' = IF start' >= Len(content) THEN "done" ELSE "loop"
    /\ UNCHANGED <<chunker, content, chunk_size, overlap>>

\* the while condition is false on entry: the empty list is returned
ChunkReturn ==
    /\ cpc = "loop"
    /\ ~(start < Len(content))
    /\ cpc' = "done"
    /\ UNCHANGED <<chunker, content, chunk_size, overlap, start, chunks, windows>>

VSChunkStep ==
    /\ chunker = "vector_store"
    /\ (ChunkBody \/ ChunkReturn)
    /\ UNCHANGED <<indexVars, genVars>>

DPChunkStep ==
    /\ chunker = "document_processor"
    /\ (ChunkBody \/ ChunkReturn)
    /\ UNCHANGED <<indexVars, genVars>>

NextChunk == VSChunkStep \/ DPChunkStep

SpecChunk == InitChunk /\ [][NextChunk]_vars

(***************************************************************************)
(* The vector store: VectorStore over a chromadb collection.               *)
(***************************************************************************)
DocIds == {"d1", "d2"}

\* framework names, as they are written in metadata and in framework_focus
GRI == <<"g", "r", "i">>
TCFD == <<"t", "c", "f", "d">>

\* f"{document_id}_chunk_{i}": the id determines the pair, and the pair the id
ChunkId(d, i) == <<d, i>>

\* metadata whose chunk_index counts from 1
ChunkMetadataOneBased(d, i, m) ==
    [document_id |-> d, chunk_index |-> i + 1, chunk_id |-> ChunkId(d, i)] @@ m

\* {**metadata, "document_id": ..., "chunk_index": ..., "chunk_id": ...}
ChunkMetadata(d, i, m) ==
    [document_id |-> d, chunk_index |-> i, chunk_id |-> ChunkId(d, i)] @@ m

\* _chunk_content(content) with its default chunk_size and overlap
ChunkContent(c) == ChunkLoop(c, 0, DefaultChunkSize, DefaultOverlap, Len(c) + 1)

\* an add that, for an id the collection holds, writes the new text over the
\* old entry and leaves its metadata
CollectionAddTextFirst(coll, id, doc, md) ==
    IF id \in DOMAIN coll
    THEN [coll EXCEPT ![id] = [document |-> doc, metadata |-> coll[id].metadata]]
    ELSE coll @@ (id :> [document |-> doc, metadata |-> md])

\* Collection.add of one entry whose id is new; an id the collection holds
\* already keeps its entry (chromadb skips it) unless the library raises
CollectionAdd(coll, id, doc, md) ==
    IF id \in DOMAIN coll THEN coll
    ELSE coll @@ (id :> [document |-> doc, metadata |-> md])

\* a `where` filter: every key of the filter is in the metadata with that value
\* (None is the empty filter)
NoFilter == <<>>
Matches(entry, where) ==
    \A k \in DOMAIN where :
        k \in DOMAIN entry.metadata /\ entry.metadata[k] = where[k]

\* a delete that removes only the first chunk of what the filter matches
CollectionDeleteFirstChunk(coll, where) ==
    [id \in {i \in DOMAIN coll :
                ~(Matches(coll[i], where) /\ coll[i].metadata.chunk_index = 0)}
        |-> coll[id]]

\* Collection.delete(where=...)
CollectionDelete(coll, where) ==
    [id \in {i \in DOMAIN coll : ~Matches(coll[i], where)} |-> coll[id]]

\* the for loop of add_document from chunk i on (0-based); failAt = i + 1
\* makes Collection.add raise at chunk i, which ends add_document
RECURSIVE AddChunks(_, _, _, _, _, _, _)
AddChunks(coll, policy, d, cks, m, i, failAt) ==
    IF i >= Len(cks) THEN [collection |-> coll, raised |-> FALSE]
    ELSE IF failAt = i + 1 \/ (ChunkId(d, i) \in DOMAIN coll /\ policy = "raise")
         THEN [collection |-> coll, raised |-> TRUE]
         ELSE AddChunks(CollectionAdd(coll, ChunkId(d, i), cks[i + 1], ChunkMetadata(d, i, m)),
                        policy, d, cks, m, i + 1, failAt)

\* the distances a query can have to an entry, in hundredths
Dists == {0, 40, 150}

IsInjective(f) == \A i, j \in DOMAIN f : f[i] = f[j] => i = j

\* Collection.query returns the entries nearest to the query among those the
\* filter matches, nearest first (entries at the same distance in any order):
\* whether the ids `r` are such a result
NearestFirst(coll, dist, where, r) ==
    LET cand == {id \in DOMAIN coll : Matches(coll[id], where)}
        k == Len(r)
    IN  /\ IsInjective(r)
        /\ \A i \in 1..(k - 1) : dist[r[i]] <= dist[r[i + 1]]
        /\ \A id \in cand \ {r[i] : i \in 1..k} :
              \A i \in 1..k : dist[r[i]] <= dist[id]

QueryIds(coll, dist, n, where) ==
    LET cand == {id \in DOMAIN coll : Matches(coll[id], where)}
        k == Min(n, Cardinality(cand))
    IN  {r \in [1..k -> cand] : NearestFirst(coll, dist, where, r)}

\* results that carry the id of the chunk after the one found
FormatResultsNextId(coll, dist, r) ==
    [i \in 1..Len(r) |-> [content |-> coll[r[i]].document,
                           metadata |-> coll[r[i]].metadata,
                           distance |-> dist[r[i]],
                           id |-> <<r[i][1], r[i][2] + 1>>]]

\* the formatted results of search
FormatResults(coll, dist, r) ==
    [i \in 1..Len(r) |-> [content |-> coll[r[i]].document,
                           metadata |-> coll[r[i]].metadata,
                           distance |-> dist[r[i]],
                           id |-> r[i]]]

Search(coll, dist, n, where) ==
    {FormatResults(coll, dist, r) : r \in QueryIds(coll, dist, n, where)}

SearchByFramework(coll, dist, framework, n) ==
    Search(coll, dist, n, [framework |-> framework])

\* the ids of a document's entries by ascending chunk_index
RECURSIVE ByChunkIndex(_, _)
ByChunkIndex(coll, ids) ==
    IF ids = {} THEN <<>>
    ELSE LET first == CHOOSE id \in ids :
                         \A o \in ids : coll[id].metadata.chunk_index
                                          <= coll[o].metadata.chunk_index
         IN  <<first>> \o ByChunkIndex(coll, ids \ {first})

GetDocumentChunks(coll, d) ==
    LET ids == ByChunkIndex(coll, {id \in DOMAIN coll : Matches(coll[id], [document_id |-> d])})
    IN  [i \in 1..Len(ids) |-> [content |-> coll[ids[i]].document,
                                 metadata |-> coll[ids[i]].metadata,
                                 id |-> ids[i]]]

\* the documents that are uploaded: the extracted text and the metadata
\* add_document is called with
Letters(n, ch) == [i \in 1..n |-> ch]
Uploads ==
    [long_report |-> [content |-> Letters(900, "a"),
                      metadata |-> [category |-> "company_data"]],
     short_standard |-> [content |-> <<"b", ".">>,
                         metadata |-> [category |-> "framework", framework |-> GRI]],
     empty_file |-> [content |-> <<>>,
                     metadata |-> [category |-> "internal"]]]

\* chunks = self._chunk_content(content), for each upload
UploadChunks == [u \in DOMAIN Uploads |-> ChunkContent(Uploads[u].content)]

\* the result counts searches ask for in the vector store's own specification
MaxIndexN == 1

\* no chunker call in progress
ChunkIdle ==
    /\ chunker = "vector_store" /\ content = <<>>
    /\ chunk_size = DefaultChunkSize /\ overlap = DefaultOverlap
    /\ start = 0 /\ chunks = <<>> /\ windows = <<>> /\ cpc = "done"

InitIndex ==
    /\ collection = <<>>
    /\ dup_policy \in {"ignore", "raise"}
    /\ ret = [op |-> "none"]
    /\ ChunkIdle
    /\ GenIdle

DocEntries(coll, d) == {id \in DOMAIN coll : coll[id].metadata.document_id = d}

AddDocument(d, u, failAt) ==
    LET cks == UploadChunks[u]
        out == AddChunks(collection, dup_policy, d, cks, Uploads[u].metadata, 0, failAt)
    IN  /\ failAt \in 0..Len(cks)
        /\ collection' = out.collection
        /\ ret' = [op |-> "add_document", document_id |-> d, upload |-> u,
                   raised |-> out.raised,
                   had |-> Cardinality(DocEntries(collection, d)),
                   value |-> IF out.raised THEN <<>>
                             ELSE [i \in 1..Len(cks) |-> ChunkId(d, i - 1)]]
        /\ UNCHANGED dup_policy

AddDocumentStep ==
    /\ \E d \in DocIds, u \in DOMAIN Uploads :
          \E failAt \in 0..Len(UploadChunks[u]) : AddDocument(d, u, failAt)
    /\ UNCHANGED <<chunkVars, genVars>>

\* delete_document: True, or False when Collection.delete raised
DeleteDocument(d, fails) ==
    /\ collection' = IF fails THEN collection
                     ELSE CollectionDelete(collection, [document_id |-> d])
    /\ ret' = [op |-> "delete_document", document_id |-> d, value |-> ~fails,
               had |-> Cardinality(DocEntries(collection, d))]
    /\ UNCHANGED dup_policy

DeleteDocumentStep ==
    /\ \E d \in DocIds, fails \in BOOLEAN : DeleteDocument(d, fails)
    /\ UNCHANGED <<chunkVars, genVars>>

\* the filters of search, search_by_framework and search_by_category
SearchFilters == {NoFilter, [framework |-> GRI], [category |-> "framework"]}

\* a search that takes the entries it returns out of the collection
SearchStepEvicting ==
    \E n \in 1..MaxIndexN, where \in SearchFilters :
        LET cand == {id \in DOMAIN collection : Matches(collection[id], where)}
            k == Min(n, Cardinality(cand))
        IN  \E r \in [1..k -> cand], ds \in [1..k -> Dists] :
                LET dist == [id \in DOMAIN collection |->
                                IF \E i \in 1..k : r[i] = id
                                THEN ds[CHOOSE i \in 1..k : r[i] = id]
                                ELSE 150]
                IN  /\ NearestFirst(collection, dist, where, r)
                    /\ ret' = [op |-> "search", n |-> n, where |-> where,
                               value |-> FormatResults(collection, dist, r)]
                    /\ collection' = [id \in DOMAIN collection \ {r[i] : i \in 1..k}
                                         |-> collection[id]]
                    /\ UNCHANGED dup_policy
                    /\ UNCHANGED <<chunkVars, genVars>>

\* a search for some query text: the query decides the distances, so any
\* `n` matching entries can be the nearest, at any non-decreasing distances
SearchStep ==
    \E n \in 1..MaxIndexN, where \in SearchFilters :
        LET cand == {id \in DOMAIN collection : Matches(collection[id], where)}
            k == Min(n, Cardinality(cand))
        IN  \E r \in [1..k -> cand], ds \in [1..k -> Dists] :
                LET dist == [id \in DOMAIN collection |->
                                IF \E i \in 1..k : r[i] = id
                                THEN ds[CHOOSE i \in 1..k : r[i] = id]
                                ELSE 150]
                IN  /\ NearestFirst(collection, dist, where, r)
                    /\ ret' = [op |-> "search", n |-> n, where |-> where,
                               value |-> FormatResults(collection, dist, r)]
                    /\ UNCHANGED <<collection, dup_policy>>
                    /\ UNCHANGED <<chunkVars, genVars>>

GetDocumentChunksStep ==
    \E d \in DocIds :
        /\ ret' = [op |-> "get_document_chunks", document_id |-> d,
                   value |-> GetDocumentChunks(collection, d)]
        /\ UNCHANGED <<collection, dup_policy>>
        /\ UNCHANGED <<chunkVars, genVars>>

NextIndex ==
    AddDocumentStep \/ DeleteDocumentStep \/ SearchStep \/ GetDocumentChunksStep

SpecIndex == InitIndex /\ [][NextIndex]_vars

(***************************************************************************)
(* get_collection_stats, over collections of more entries than it reads.   *)
(***************************************************************************)
\* metadata.get(key, default)
MetaGet(md, key, default) == IF key \in DOMAIN md THEN md[key] ELSE default

UnknownFramework == <<"u", "n", "k", "n", "o", "w", "n">>

\* the category and the framework an entry is counted under
MetaClass(e) ==
    [category |-> MetaGet(e.metadata, "category", "unknown"),
     framework |-> MetaGet(e.metadata, "framework", UnknownFramework)]

ClassSize(coll, c) == Cardinality({id \in DOMAIN coll : MetaClass(coll[id]) = c})

RECURSIVE SumOver(_, _)
SumOver(f, keys) ==
    IF keys = {} THEN 0
    ELSE LET k == CHOOSE x \in keys : TRUE
         IN  f[k] + SumOver(f, keys \ {k})

\* collection.get(limit=SampleLimit) returns any `need` entries: how many of
\* each class they can be
RECURSIVE Samplings(_, _, _)
Samplings(coll, classes, need) ==
    IF classes = {} THEN (IF need = 0 THEN {<<>>} ELSE {})
    ELSE LET c == CHOOSE x \in classes : TRUE
             rest == classes \ {c}
             restSize == Cardinality({id \in DOMAIN coll : MetaClass(coll[id]) \in rest})
         IN  UNION {{(c :> k) @@ f : f \in Samplings(coll, rest, need - k)} :
                       k \in Max(0, need - restSize)..Min(ClassSize(coll, c), need)}

\* statistics that count an entry under the keys its metadata has only
CollectionStatsWithoutUnknown(coll, sampled) ==
    LET seen == {c \in DOMAIN sampled : sampled[c] > 0}
        withCategory == {c \in seen : c.category # "unknown"}
        withFramework == {c \in seen : c.framework # UnknownFramework}
    IN  [total_chunks |-> Cardinality(DOMAIN coll),
         categories |-> [cat \in {c.category : c \in withCategory} |->
                            SumOver(sampled, {c \in withCategory : c.category = cat})],
         frameworks |-> [fw \in {c.framework : c \in withFramework} |->
                            SumOver(sampled, {c \in withFramework : c.framework = fw})]]

\* the dict get_collection_stats returns when the sample holds sampled[c]
\* entries of class c; a key is in a dict when the sample has an entry for it
CollectionStats(coll, sampled) ==
    LET seen == {c \in DOMAIN sampled : sampled[c] > 0}
    IN  [total_chunks |-> Cardinality(DOMAIN coll),
         categories |-> [cat \in {c.category : c \in seen} |->
                            SumOver(sampled, {c \in seen : c.category = cat})],
         frameworks |-> [fw \in {c.framework : c \in seen} |->
                            SumOver(sampled, {c \in seen : c.framework = fw})]]

\* collection.get(limit=1000) of get_collection_stats
SampleLimit == 1000

\* an archive of scans indexed earlier: every scan is a text of blanks that
\* add_document cuts into ScanChunkCount chunks, together more than
\* SampleLimit entries
ScanIds == <<"s01", "s02", "s03", "s04", "s05", "s06", "s07", "s08", "s09", "s10", "s11">>
ScanChunkCount == SampleLimit \div Len(ScanIds) + 1
ScanUpload ==
    [content |-> Letters((ScanChunkCount - 1) * (DefaultChunkSize - DefaultOverlap) + 1, " "),
     metadata |-> [category |-> "supplier"]]
ScanChunks == ChunkContent(ScanUpload.content)

RECURSIVE IndexedScans(_)
IndexedScans(n) ==
    IF n = 0 THEN <<>>
    ELSE AddChunks(IndexedScans(n - 1), "ignore", ScanIds[n], ScanChunks,
                   ScanUpload.metadata, 0, 0).collection

ScannedArchive == IndexedScans(Len(ScanIds))

InitStats ==
    /\ collection \in {<<>>, ScannedArchive}
    /\ dup_policy = "ignore"
    /\ ret = [op |-> "none"]
    /\ ChunkIdle
    /\ GenIdle

GetCollectionStatsStep ==
    /\ \E sampled \in Samplings(collection,
                                {MetaClass(collection[id]) : id \in DOMAIN collection},
                                Min(SampleLimit, Cardinality(DOMAIN collection))) :
          ret' = [op |-> "get_collection_stats",
                  value |-> CollectionStats(collection, sampled)]
    /\ UNCHANGED <<collection, dup_policy>>
    /\ UNCHANGED <<chunkVars, genVars>>

NextStats == AddDocumentStep \/ DeleteDocumentStep \/ GetCollectionStatsStep

SpecStats == InitStats /\ [][NextStats]_vars

(***************************************************************************)
(* The response generator: AIService.generate_response.                    *)
(*                                                                         *)
(* A framework_focus string is held as the sequence of the pieces between  *)
(* its commas (what split(',') returns), so "" is <<<<>>>> and None, which *)
(* has no pieces, is <<>>.  A query is the sequence of its words.  Texts   *)
(* the LLM returns are sequences of characters, messages of the response   *)
(* sequences of parts.                                                     *)
(***************************************************************************)
\* `if framework_focus:`: neither None nor the empty string
FocusGiven(focus) == focus # <<>> /\ focus # <<<<>>>>

\* [fw.strip() for fw in framework_focus.split(',') if fw.strip()]
ParseFrameworks(focus) ==
    LET stripped == [i \in 1..Len(focus) |-> Strip(focus[i])]
    IN  SelectSeq(stripped, LAMBDA fw : fw # <<>>)

\* a missing distance counted as 0.0
DistanceOrZero(doc) == IF "distance" \in DOMAIN doc THEN doc.distance ELSE 0

\* x.get('distance', 1.0)
DistanceOr1(doc) == IF "distance" \in DOMAIN doc THEN doc.distance ELSE 100

\* list.sort(key=...): the element x put into the sorted list after every
\* element whose key is not larger (the sort is stable)
RECURSIVE InsertByKeyFirst(_, _)
InsertByKeyFirst(sorted, x) ==
    IF sorted = <<>> THEN <<x>>
    ELSE IF DistanceOr1(x) <= DistanceOr1(Head(sorted))
         THEN <<x>> \o sorted
         ELSE <<Head(sorted)>> \o InsertByKeyFirst(Tail(sorted), x)

RECURSIVE InsertByKey(_, _)
InsertByKey(sorted, x) ==
    IF sorted = <<>> THEN <<x>>
    ELSE IF DistanceOr1(x) < DistanceOr1(Head(sorted))
         THEN <<x>> \o sorted
         ELSE <<Head(sorted)>> \o InsertByKey(Tail(sorted), x)

RECURSIVE SortByDistance(_)
SortByDistance(docs) ==
    IF docs = <<>> THEN <<>>
    ELSE InsertByKey(SortByDistance(SubSeq(docs, 1, Len(docs) - 1)), docs[Len(docs)])

\* docs[:n]
TakeFirst(docs, n) == PySlice(docs, 0, n)

\* _build_context
NoDocumentsSentinel == <<"No relevant documents found.">>
\* a context that is the empty join when there are no documents
BuildContextEmptyJoin(docs) ==
    IF docs = <<>> THEN <<>>
    ELSE [i \in 1..Len(docs) |->
             [ordinal |-> i,
              source |-> MetaGet(docs[i].metadata, "filename", "Unknown source"),
              framework |-> MetaGet(docs[i].metadata, "framework", <<>>),
              category |-> MetaGet(docs[i].metadata, "category", ""),
              content |-> docs[i].content]]

BuildContext(docs) ==
    IF docs = <<>> THEN NoDocumentsSentinel
    ELSE [i \in 1..Len(docs) |->
             [ordinal |-> i,
              source |-> MetaGet(docs[i].metadata, "filename", "Unknown source"),
              framework |-> MetaGet(docs[i].metadata, "framework", <<>>),
              category |-> MetaGet(docs[i].metadata, "category", ""),
              content |-> docs[i].content]]

\* re.sub(r'[O0]\s*$', '', text.strip()).strip()
CleanResponse(text) ==
    LET t == Strip(text)
    IN  IF t # <<>> /\ t[Len(t)] \in {"O", "0"}
        THEN Strip(SubSeq(t, 1, Len(t) - 1))
        ELSE t

RECURSIVE TotalDistance(_)
TotalDistance(docs) ==
    IF docs = <<>> THEN 0 ELSE DistanceOr1(Head(docs)) + TotalDistance(Tail(docs))

\* round(x, 2) of the fraction num / n of hundredths, halves to the even
RoundHundredths(num, n) ==
    LET q == num \div n
        r == num % n
    IN  IF 2 * r < n THEN q
        ELSE IF 2 * r > n THEN q + 1
        ELSE IF q % 2 = 0 THEN q ELSE q + 1

\* a confidence that is not clamped to [0, 1]
CalculateConfidenceUnclamped(docs) ==
    IF docs = <<>> THEN 0
    ELSE RoundHundredths(100 * Len(docs) - TotalDistance(docs), Len(docs))

\* _calculate_confidence, in hundredths
CalculateConfidence(docs) ==
    IF docs = <<>> THEN 0
    ELSE LET n == Len(docs)
             num == 100 * n - TotalDistance(docs)
         IN  IF num <= 0 THEN 0
             ELSE IF num >= 100 * n THEN 100
             ELSE RoundHundredths(num, n)

\* `kw in query_lower`, for the words queries are made of here
LowerCase == [Report |-> "report", Draft |-> "draft", Generate |-> "generate"]
Lower(word) == IF word \in DOMAIN LowerCase THEN LowerCase[word] ELSE word
Mentions(q, kws) == \E i \in 1..Len(q) : Lower(q[i]) \in kws

\* a fallback that ignores the query's keywords
FallbackSuggestedActionsGeneric(q) ==
    <<"Ask follow-up questions for more specific guidance",
      "Upload additional documents for context",
      "Request a detailed analysis of your ESG data">>

\* _fallback_suggested_actions
FallbackSuggestedActions(q) ==
    LET report == IF Mentions(q, {"report", "draft"})
                  THEN <<"Review the generated content for accuracy",
                         "Add specific company data and metrics",
                         "Align with your company's sustainability strategy">>
                  ELSE <<>>
        compliance == IF Mentions(q, {"compliance", "requirement"})
                      THEN <<"Verify requirements with your legal team",
                             "Check for updates to the relevant framework",
                             "Schedule a compliance review meeting">>
                      ELSE <<>>
        risk == IF Mentions(q, {"risk", "audit"})
                THEN <<"Conduct a detailed risk assessment",
                       "Review your supply chain policies",
                       "Update your risk management procedures">>
                ELSE <<>>
        suggestions == report \o compliance \o risk
    IN  IF suggestions = <<>>
        THEN <<"Ask follow-up questions for more specific guidance",
               "Upload additional documents for context",
               "Request a detailed analysis of your ESG data">>
        ELSE TakeFirst(suggestions, 3)

\* _generate_suggested_actions, given what the second LLM call did: it raised,
\* or answered a JSON list, other JSON, or text that is not JSON
GenerateSuggestedActions(q, reply) ==
    IF reply.kind = "list" THEN TakeFirst(reply.items, 3)
    ELSE FallbackSuggestedActions(q)

ApologyPrefix == "I apologize, but I encountered an error while processing your request: "

\* a degraded response that keeps the retrieved references
DegradedResponseWithReferences(e, elapsed, docs) ==
    [response |-> <<ApologyPrefix, e>>,
     confidence_score |-> 0,
     processing_time |-> elapsed,
     references |-> docs,
     suggested_actions |->
        <<"Please try rephrasing your question or contact support if the issue persists.">>]

\* the dict the except clause returns; `docs` are the context documents
DegradedResponse(e, elapsed, docs) ==
    [response |-> <<ApologyPrefix, e>>,
     confidence_score |-> 0,
     processing_time |-> elapsed,
     references |-> <<>>,
     suggested_actions |->
        <<"Please try rephrasing your question or contact support if the issue persists.">>]

\* a try block that lets an exception of the follow-up call reach the except
\* clause of generate_response
SuccessResponseUnlessActionsRaise(text, elapsed, docs, q, reply) ==
    IF reply.kind = "raised"
    THEN DegradedResponse("follow-up call failed", elapsed, docs)
    ELSE [response |-> text,
          confidence_score |-> CalculateConfidence(docs),
          processing_time |-> elapsed,
          references |-> docs,
          suggested_actions |-> GenerateSuggestedActions(q, reply)]

\* the dict the try block returns
SuccessResponse(text, elapsed, docs, q, reply) ==
    [response |-> text,
     confidence_score |-> CalculateConfidence(docs),
     processing_time |-> elapsed,
     references |-> docs,
     suggested_actions |-> GenerateSuggestedActions(q, reply)]

(***************************************************************************)
(* AIService._select_prompt_template.  A template is held as the key it    *)
(* has in self.prompts; the combined template as the base key and the      *)
(* framework names it lists.                                               *)
(***************************************************************************)
\* str.upper, for the letters of the names
UpperChar ==
    [a |-> "A", b |-> "B", c |-> "C", d |-> "D", e |-> "E", f |-> "F",
     g |-> "G", h |-> "H", i |-> "I", j |-> "J", k |-> "K", l |-> "L",
     m |-> "M", n |-> "N", o |-> "O", p |-> "P", q |-> "Q", r |-> "R",
     s |-> "S", t |-> "T", u |-> "U", v |-> "V", w |-> "W", x |-> "X",
     y |-> "Y", z |-> "Z"]
Upper(s) == [i \in 1..Len(s) |-> IF s[i] \in DOMAIN UpperChar THEN UpperChar[s[i]] ELSE s[i]]

\* [fw.strip().upper() for fw in framework_focus.split(',') if fw.strip()]
ParseUpperFrameworks(focus) ==
    LET stripped == [i \in 1..Len(focus) |-> Upper(Strip(focus[i]))]
    IN  SelectSeq(stripped, LAMBDA fw : fw # <<>>)

\* framework_templates: the key in self.prompts of each recognized name
FrameworkTemplates ==
         (<<"G", "R", "I">> :> "gri")
      @@ (<<"S", "A", "S", "B">> :> "sasb")
      @@ (<<"T", "C", "F", "D">> :> "tcfd")
      @@ (<<"C", "S", "R", "D">> :> "csrd")
      @@ (<<"E", "S", "R", "S">> :> "csrd")
      @@ (<<"I", "F", "R", "S", "-", "S", "1">> :> "ifrs")
      @@ (<<"I", "F", "R", "S", "-", "S", "2">> :> "ifrs")
      @@ (<<"U", "K", "-", "T", "C", "F", "D">> :> "tcfd")
      @@ (<<"C", "A", "N", "A", "D", "A", "-", "T", "C", "F", "D">> :> "tcfd")
      @@ (<<"A", "U", "S", "T", "R", "A", "L", "I", "A", "-", "C", "L", "I", "M", "A", "T", "E">> :> "tcfd")
      @@ (<<"J", "A", "P", "A", "N", "-", "T", "C", "F", "D">> :> "tcfd")
      @@ (<<"S", "E", "C", "-", "C", "L", "I", "M", "A", "T", "E">> :> "sasb")
      @@ (<<"C", "A", "L", "I", "F", "O", "R", "N", "I", "A", "-", "S", "B", "2", "5", "3">> :> "sasb")
      @@ (<<"S", "F", "D", "R">> :> "csrd")
      @@ (<<"U", "K", "-", "S", "D", "R">> :> "tcfd")
      @@ (<<"C", "A", "N", "A", "D", "A", "-", "E", "S", "G">> :> "gri")
      @@ (<<"A", "U", "S", "T", "R", "A", "L", "I", "A", "-", "E", "S", "G">> :> "gri")
      @@ (<<"J", "A", "P", "A", "N", "-", "E", "S", "G">> :> "gri")
      @@ (<<"C", "D", "P">> :> "tcfd")

\* `phrase in query_lower`, the phrase and the query as their words
MentionsPhrase(q, phrase) ==
    \E i \in 1..(Len(q) - Len(phrase) + 1) :
        \A j \in 1..Len(phrase) : Lower(q[i + j - 1]) = phrase[j]

MentionsAny(q, phrases) == \E p \in phrases : MentionsPhrase(q, p)

\* an if/elif chain that tries the compliance family first
IntentTemplateComplianceFirst(q) ==
    IF MentionsAny(q, {<<"compliance">>, <<"requirement">>, <<"standard">>})
    THEN [template |-> "compliance"]
    ELSE IF MentionsAny(q, {<<"report">>, <<"draft">>, <<"write">>, <<"generate">>})
    THEN [template |-> "report_generation"]
    ELSE IF MentionsAny(q, {<<"risk">>, <<"audit">>, <<"supply", "chain">>})
    THEN [template |-> "risk_management"]
    ELSE IF MentionsAny(q, {<<"benchmark">>, <<"compare">>, <<"peer">>})
    THEN [template |-> "benchmarking"]
    ELSE [template |-> "base"]

\* the if/elif chain on query_lower
IntentTemplate(q) ==
    IF MentionsAny(q, {<<"report">>, <<"draft">>, <<"write">>, <<"generate">>})
    THEN [template |-> "report_generation"]
    ELSE IF MentionsAny(q, {<<"compliance">>, <<"requirement">>, <<"standard">>})
    THEN [template |-> "compliance"]
    ELSE IF MentionsAny(q, {<<"risk">>, <<"audit">>, <<"supply", "chain">>})
    THEN [template |-> "risk_management"]
    ELSE IF MentionsAny(q, {<<"benchmark">>, <<"compare">>, <<"peer">>})
    THEN [template |-> "benchmarking"]
    ELSE [template |-> "base"]

\* a combined template that lists the recognized names only
CombinedTemplateRecognizedOnly(fws) ==
    [template |-> "combined", base |-> "base",
     frameworks |-> SelectSeq(fws, LAMBDA fw : fw \in DOMAIN FrameworkTemplates)]

\* the f-string of the multi-framework branch
CombinedTemplate(fws) == [template |-> "combined", base |-> "base", frameworks |-> fws]

\* the template of the first recognized name, for the loop after the
\* multi-framework branch
FirstRecognized(fws) ==
    LET i == CHOOSE i \in 1..Len(fws) :
                 /\ fws[i] \in DOMAIN FrameworkTemplates
                 /\ \A j \in 1..(i - 1) : fws[j] \notin DOMAIN FrameworkTemplates
    IN  [template |-> FrameworkTemplates[fws[i]]]

AnyRecognized(fws) == \E i \in 1..Len(fws) : fws[i] \in DOMAIN FrameworkTemplates

\* a selection in which the intent of the query comes before a framework
SelectPromptTemplateIntentFirst(q, focus) ==
    LET fws == ParseUpperFrameworks(focus)
    IN  IF IntentTemplate(q) # [template |-> "base"]
        THEN IntentTemplate(q)
        ELSE IF FocusGiven(focus) /\ Len(fws) > 1 /\ AnyRecognized(fws)
        THEN CombinedTemplate(fws)
        ELSE IF FocusGiven(focus) /\ AnyRecognized(fws)
        THEN FirstRecognized(fws)
        ELSE [template |-> "base"]

SelectPromptTemplate(q, focus) ==
    LET fws == ParseUpperFrameworks(focus)
    IN  IF FocusGiven(focus) /\ Len(fws) > 1 /\ AnyRecognized(fws)
        THEN CombinedTemplate(fws)
        ELSE IF FocusGiven(focus) /\ AnyRecognized(fws)
        THEN FirstRecognized(fws)
        ELSE IntentTemplate(q)

(***************************************************************************)
(* The inputs of generate_response and the index it reads.                 *)
(***************************************************************************)
\* four one-chunk documents, three of them GRI material
GenUploads ==
    << [document_id |-> "g1", content |-> <<"g", "1", ".">>,
        metadata |-> [filename |-> "gri-1.pdf", category |-> "framework", framework |-> GRI]],
       [document_id |-> "g2", content |-> <<"g", "2", ".">>,
        metadata |-> [filename |-> "gri-2.pdf", category |-> "framework", framework |-> GRI]],
       [document_id |-> "g3", content |-> <<"g", "3", ".">>,
        metadata |-> [category |-> "framework", framework |-> GRI]],
       [document_id |-> "t1", content |-> <<"t", "1", ".">>,
        metadata |-> [filename |-> "tcfd.pdf", category |-> "framework", framework |-> TCFD]] >>

\* the collection after add_document of the first n of them
RECURSIVE IndexedUploads(_)
IndexedUploads(n) ==
    IF n = 0 THEN <<>>
    ELSE AddChunks(IndexedUploads(n - 1), "ignore", GenUploads[n].document_id,
                   ChunkContent(GenUploads[n].content), GenUploads[n].metadata,
                   0, 0).collection

GenCollections == {IndexedUploads(0), IndexedUploads(Len(GenUploads))}

\* distances of a query to the four documents, in hundredths: with ties, all
\* different, and all further than 1
GenEmbeddings ==
    {[g1 |-> 20, g2 |-> 20, g3 |-> 150, t1 |-> 20],
     [g1 |-> 40, g2 |-> 20, g3 |-> 0, t1 |-> 150],
     [g1 |-> 150, g2 |-> 120, g3 |-> 150, t1 |-> 120]}

Queries == {<<"hello">>, <<"Draft", "audit", "Report">>}

FocusPieces == {GRI, <<" ">> \o TCFD}

\* None, "", " ", "gri, , tcfd", "gri, tcfd,gri", and the strings of up to
\* MaxFrameworks names
FocusStrings ==
    {<<>>, <<<<>>>>, <<<<" ">>>>, <<GRI, <<" ">>, <<" ">> \o TCFD>>,
     <<GRI, <<" ">> \o TCFD, GRI>>} \cup
    UNION {[1..n -> FocusPieces] : n \in 1..MaxFrameworks}

\* context documents a caller passes: chunks of get_document_chunks (without
\* a distance) and search results (with one)
SuppliedContexts ==
    LET chunk == [content |-> <<"g", "1", ".">>,
                  metadata |-> ChunkMetadata("g1", 0, GenUploads[1].metadata),
                  id |-> ChunkId("g1", 0)]
        far == [content |-> <<"t", "1", ".">>,
                metadata |-> ChunkMetadata("t1", 0, GenUploads[4].metadata),
                distance |-> 150,
                id |-> ChunkId("t1", 0)]
        near == [far EXCEPT !.distance = 20]
    IN  {<<>>, <<chunk>>, <<far, chunk>>, <<near, far, near>>}

\* what the main LLM call can do: return a text or raise
LLMTexts == {<<"o", "k">>, <<" ", "5", "0", "\n">>}
LLMErrors == {"Request timed out.", "insufficient_quota"}

\* what the LLM call for actions can do
ActionReplies ==
    {[kind |-> "raised"], [kind |-> "not json"], [kind |-> "json object"]}
      \cup {[kind |-> "list", items |-> [i \in 1..n |-> "action"]] : n \in 0..MaxLLMActions}

InitGen ==
    /\ query \in Queries
    /\ context_in \in SuppliedContexts
    /\ framework_focus \in FocusStrings
    /\ gpc = "call"
    /\ frameworks = <<>> /\ fw_i = 0
    /\ all_context_docs = <<>> /\ context_documents = <<>>
    /\ ai_response = <<>> /\ llm_error = "none" /\ action_reply = [kind |-> "none"]
    /\ distances = <<>> /\ issued = <<>> /\ clock = 0 /\ response = [kind |-> "none"]
    /\ context = <<>> /\ prompt_template = [template |-> "none"]
    /\ collection \in GenCollections
    /\ dup_policy = "ignore"
    /\ ret = [op |-> "none"]
    /\ ChunkIdle

\* what one vector store query of the request can do: return results, or
\* raise.  The query is embedded by the first search that gets that far;
\* later ones meet the same distances.
QueryOutcomes(n, where) ==
    LET ds == IF distances = <<>>
              THEN {[id \in DOMAIN collection |-> e[id[1]]] : e \in GenEmbeddings}
              ELSE {distances}
    IN  UNION {{[ok |-> TRUE, results |-> r, distances |-> d] :
                   r \in Search(collection, d, n, where)} : d \in ds}
          \cup {[ok |-> FALSE, results |-> <<>>, distances |-> distances]}

Issue(kind, n, where, o) ==
    /\ distances' = o.distances
    /\ issued' = Append(issued, [kind |-> kind, n |-> n, where |-> where,
                                 ok |-> o.ok, results |-> o.results])
    /\ clock' = clock + 1

\* `if not context_documents` is false: the documents passed are used
UseSuppliedContext ==
    /\ gpc = "call"
    /\ context_in # <<>>
    /\ context_documents' = context_in
    /\ gpc' = "generate"
    /\ UNCHANGED <<query, context_in, framework_focus, frameworks, fw_i,
                   all_context_docs, ai_response, llm_error, action_reply,
                   distances, issued, clock, response>>
    /\ UNCHANGED <<context, prompt_template>>
    /\ UNCHANGED <<chunkVars, indexVars>>

\* no framework focus: search(query, n_results=5); an exception leaves
\* generate_response
UnscopedSearch ==
    /\ gpc = "call"
    /\ context_in = <<>>
    /\ ~FocusGiven(framework_focus)
    /\ \E o \in QueryOutcomes(5, NoFilter) :
          /\ Issue("general", 5, NoFilter, o)
          /\ context_documents' = o.results
          /\ gpc' = IF o.ok THEN "generate" ELSE "raised"
    /\ UNCHANGED <<query, context_in, framework_focus, frameworks, fw_i,
                   all_context_docs, ai_response, llm_error, action_reply, response>>
    /\ UNCHANGED <<context, prompt_template>>
    /\ UNCHANGED <<chunkVars, indexVars>>

\* a framework focus: the list of frameworks and the empty all_context_docs
StartFanout ==
    /\ gpc = "call"
    /\ context_in = <<>>
    /\ FocusGiven(framework_focus)
    /\ frameworks' = ParseFrameworks(framework_focus)
    /\ fw_i' = 0
    /\ all_context_docs' = <<>>
    /\ gpc' = "fanout"
    /\ UNCHANGED <<query, context_in, framework_focus, context_documents,
                   ai_response, llm_error, action_reply, distances, issued, clock, response>>
    /\ UNCHANGED <<context, prompt_template>>
    /\ UNCHANGED <<chunkVars, indexVars>>

\* the try of the for loop: search_by_framework(query, framework, n_results=3)
FrameworkSearch ==
    /\ gpc = "fanout"
    /\ fw_i < Len(frameworks)
    /\ \E o \in QueryOutcomes(3, [framework |-> frameworks[fw_i + 1]]) :
          /\ Issue("framework", 3, [framework |-> frameworks[fw_i + 1]], o)
          /\ all_context_docs' = all_context_docs \o o.results
          /\ fw_i' = IF o.ok THEN fw_i + 1 ELSE fw_i
          /\ gpc' = IF o.ok THEN "fanout" ELSE "fallback"
    /\ UNCHANGED <<query, context_in, framework_focus, frameworks,
                   context_documents, ai_response, llm_error, action_reply, response>>
    /\ UNCHANGED <<context, prompt_template>>
    /\ UNCHANGED <<chunkVars, indexVars>>

\* the except of the for loop: search(query, n_results=2); an exception here
\* leaves generate_response
FallbackSearch ==
    /\ gpc = "fallback"
    /\ \E o \in QueryOutcomes(2, NoFilter) :
          /\ Issue("general", 2, NoFilter, o)
          /\ all_context_docs' = all_context_docs \o o.results
          /\ fw_i' = IF o.ok THEN fw_i + 1 ELSE fw_i
          /\ gpc' = IF o.ok THEN "fanout" ELSE "raised"
    /\ UNCHANGED <<query, context_in, framework_focus, frameworks,
                   context_documents, ai_response, llm_error, action_reply, response>>
    /\ UNCHANGED <<context, prompt_template>>
    /\ UNCHANGED <<chunkVars, indexVars>>

\* after the loop: sort by distance and keep the first 5
Merge ==
    /\ gpc = "fanout"
    /\ fw_i = Len(frameworks)
    /\ all_context_docs' = SortByDistance(all_context_docs)
    /\ context_documents' = TakeFirst(all_context_docs', 5)
    /\ gpc' = "generate"
    /\ UNCHANGED <<query, context_in, framework_focus, frameworks, fw_i,
                   ai_response, llm_error, action_reply, distances, issued, clock, response>>
    /\ UNCHANGED <<context, prompt_template>>
    /\ UNCHANGED <<chunkVars, indexVars>>

\* the context, the prompt template and the main LLM call: it returns a text,
\* or raises and the except clause returns the degraded response, or never
\* completes (self.llm is built without a timeout)
Generate ==
    /\ gpc = "generate"
    /\ clock' = clock + 1
    /\ \/ \E text \in LLMTexts :
             /\ ai_response' = CleanResponse(text)
             /\ gpc' = "score"
             /\ UNCHANGED <<llm_error, response>>
       \/ \E e \in LLMErrors :
             /\ llm_error' = e
             /\ response' = DegradedResponse(e, clock', context_documents)
             /\ gpc' = "done"
             /\ UNCHANGED ai_response
       \/ /\ gpc' = "awaiting_llm"
          /\ UNCHANGED <<ai_response, llm_error, response>>
    /\ UNCHANGED <<query, context_in, framework_focus, frameworks, fw_i,
                   all_context_docs, context_documents, action_reply, distances, issued>>
    /\ context' = BuildContext(context_documents)
    /\ prompt_template' = SelectPromptTemplate(query, framework_focus)
    /\ UNCHANGED <<chunkVars, indexVars>>

\* the confidence, the LLM call for suggested actions (which can also never
\* complete), and the return
Score ==
    /\ gpc = "score"
    /\ clock' = clock + 1
    /\ \/ \E reply \in ActionReplies :
             /\ action_reply' = reply
             /\ response' = SuccessResponse(ai_response, clock', context_documents,
                                            query, reply)
             /\ gpc' = "done"
       \/ /\ gpc' = "awaiting_llm"
          /\ UNCHANGED <<action_reply, response>>
    /\ UNCHANGED <<query, context_in, framework_focus, frameworks, fw_i,
                   all_context_docs, context_documents, ai_response, llm_error,
                   distances, issued>>
    /\ UNCHANGED <<context, prompt_template>>
    /\ UNCHANGED <<chunkVars, indexVars>>

NextGen ==
    \/ UseSuppliedContext
    \/ UnscopedSearch
    \/ StartFanout
    \/ FrameworkSearch
    \/ FallbackSearch
    \/ Merge
    \/ Generate
    \/ Score

SpecGen == InitGen /\ [][NextGen]_vars

\* the event loop runs every step of the request that can run
SpecGenLive == InitGen /\ [][NextGen]_vars /\ WF_vars(NextGen)

(***************************************************************************)
(* _select_prompt_template on its own, for queries and framework_focus     *)
(* strings of every shape.                                                 *)
(***************************************************************************)
PromptQueries ==
    {<<"hello">>, <<"Generate">>, <<"Draft", "audit", "Report">>,
     <<"write", "compliance">>, <<"audit", "requirement">>, <<"standard", "risk">>,
     <<"supply", "chain", "peer">>, <<"chain", "supply">>, <<"supply", "benchmark">>,
     <<"compare", "peer">>}

\* None, "", and
\* "gri", " Gri ", "esrs", "foo", "gri,tcfd", "gri,foo", "foo, tcfd", "foo,bar", "gri,gri", ",gri", "gri,foo,Sasb"
PromptFocusStrings ==
    {<<>>, <<<<>>>>,
     <<<<"g", "r", "i">>>>,
     <<<<" ", "G", "r", "i", " ">>>>,
     <<<<"e", "s", "r", "s">>>>,
     <<<<"f", "o", "o">>>>,
     <<<<"g", "r", "i">>, <<"t", "c", "f", "d">>>>,
     <<<<"g", "r", "i">>, <<"f", "o", "o">>>>,
     <<<<"f", "o", "o">>, <<" ", "t", "c", "f", "d">>>>,
     <<<<"f", "o", "o">>, <<"b", "a", "r">>>>,
     <<<<"g", "r", "i">>, <<"g", "r", "i">>>>,
     <<<<>>, <<"g", "r", "i">>>>,
     <<<<"g", "r", "i">>, <<"f", "o", "o">>, <<"S", "a", "s", "b">>>>}

InitPrompt ==
    /\ query \in PromptQueries
    /\ framework_focus \in PromptFocusStrings
    /\ gpc = "select"
    /\ context_in = <<>> /\ frameworks = <<>> /\ fw_i = 0
    /\ all_context_docs = <<>> /\ context_documents = <<>>
    /\ ai_response = <<>> /\ llm_error = "none" /\ action_reply = [kind |-> "none"]
    /\ distances = <<>> /\ issued = <<>> /\ clock = 0 /\ response = [kind |-> "none"]
    /\ context = <<>> /\ prompt_template = [template |-> "none"]
    /\ IndexIdle
    /\ ChunkIdle

SelectPromptTemplateStep ==
    /\ gpc = "select"
    /\ prompt_template' = SelectPromptTemplate(query, framework_focus)
    /\ gpc' = "selected"
    /\ UNCHANGED <<query, context_in, framework_focus, frameworks, fw_i,
                   all_context_docs, context_documents, ai_response, llm_error,
                   action_reply, distances, issued, clock, response, context>>
    /\ UNCHANGED <<chunkVars, indexVars>>

NextPrompt == SelectPromptTemplateStep

SpecPrompt == InitPrompt /\ [][NextPrompt]_vars

(***************************************************************************)
(* Claims about the chunker, checked under SpecChunk.                      *)
(***************************************************************************)
\* C1: chunking terminates for every text and every chunk_size > overlap > 0:
\* no iteration of the loop leaves the window start where it was or moves it
\* back, so the start reaches the end of the text after finitely many
\* iterations.
C1_StartAlwaysAdvances ==
    [][Len(chunks') = Len(chunks) + 1 => start' > start]_vars

\* C6: a 2,500-character document chunked with chunk_size 1000 and overlap
\* 200 gives exactly 3 chunks, each at most 1000 characters long, and every
\* two consecutive chunks are cut from windows that share a character.
C6_ScenarioThreeChunks ==
    (/\ cpc = "done"
     /\ Len(content) = ScenarioLen
     /\ chunk_size = DefaultChunkSize
     /\ overlap = DefaultOverlap)
    => /\ Len(chunks) = 3
       /\ \A i \in 1..Len(chunks) : Len(chunks[i]) <= DefaultChunkSize
       /\ \A i \in 1..(Len(chunks) - 1) :
             /\ windows[i][1] <= windows[i + 1][1]
             /\ windows[i + 1][1] < Min(windows[i][2], Len(content))

\* s[k:]
DropFirst(s, k) == PySlice(s, k, Len(s))

\* the chunks in index order, each after the first without its first `ov`
\* characters, concatenated
RECURSIVE Reassemble(_, _, _)
Reassemble(cks, ov, i) ==
    IF i > Len(cks) THEN <<>>
    ELSE (IF i = 1 THEN cks[i] ELSE DropFirst(cks[i], ov)) \o Reassemble(cks, ov, i + 1)

WithoutWhitespace(s) == SelectSeq(s, LAMBDA ch : ch \notin Whitespace)

\* C7: chunk coverage: the chunks, each after the first without its first
\* `overlap` characters, concatenate to the original text up to whitespace
\* (here: even when all whitespace is ignored on both sides), and every
\* character position of the text lies in some chunk's window.
C7_ChunksReassemble ==
    cpc = "done"
    => /\ WithoutWhitespace(Reassemble(chunks, overlap, 1)) = WithoutWhitespace(content)
       /\ \A p \in 0..(Len(content) - 1) :
             \E i \in 1..Len(windows) : windows[i][1] <= p /\ p < windows[i][2]

(***************************************************************************)
(* Claims about the vector store, checked under SpecIndex.                 *)
(***************************************************************************)
\* the entries add_document(d, ...) is meant to leave for upload u, as
\* get_document_chunks returns them
NewChunkSet(d, u) ==
    [i \in 1..Len(UploadChunks[u]) |->
        [content |-> UploadChunks[u][i],
         metadata |-> ChunkMetadata(d, i - 1, Uploads[u].metadata),
         id |-> ChunkId(d, i - 1)]]

\* C8: re-processing replaces the old chunk set: once add_document has
\* returned for a document id that had indexed chunks, the chunks of that
\* document in the index are exactly the new chunk set (new text and
\* metadata under every reused id, no chunk of the old version left).
C8_ReaddReplacesOldChunks ==
    (ret.op = "add_document" /\ ~ret.raised /\ ret.had > 0)
    => GetDocumentChunks(collection, ret.document_id)
         = NewChunkSet(ret.document_id, ret.upload)

\* the ids any search of `coll` can return (every order of equally distant
\* entries is possible)
SearchableIds(coll, where) ==
    UNION {{r[i].id : i \in 1..Len(r)} :
              r \in Search(coll, [id \in DOMAIN coll |-> 0], 5, where)}

\* C9: delete cascades by document id: a delete_document(d) that returns
\* True leaves no entry whose metadata document_id is d, so that
\* get_document_chunks(d) and every search return nothing of d, and it leaves
\* the entries of every other document as they were.
C9_DeleteCascades ==
    [][(ret'.op = "delete_document" /\ ret'.value)
       => LET d == ret'.document_id
          IN  /\ \A id \in DOMAIN collection' :
                    collection'[id].metadata.document_id # d
              /\ GetDocumentChunks(collection', d) = <<>>
              /\ \A where \in {NoFilter, [framework |-> GRI]} :
                    \A id \in SearchableIds(collection', where) :
                        collection'[id].metadata.document_id # d
              /\ DOMAIN collection' \subseteq DOMAIN collection
              /\ \A id \in DOMAIN collection :
                    collection[id].metadata.document_id # d
                    => id \in DOMAIN collection' /\ collection'[id] = collection[id]
      ]_vars

\* a document with several chunks was deleted while another document stays
C9_Witness ==
    /\ ret.op = "delete_document"
    /\ ret.value
    /\ ret.had > 1
    /\ collection # <<>>

(***************************************************************************)
(* Claims about generate_response, checked under SpecGen.                  *)
(***************************************************************************)
FiveFields ==
    {"response", "references", "confidence_score", "processing_time", "suggested_actions"}

Returned == gpc = "done"

\* the request of this behaviour took the fan-out branch
FannedOut == context_in = <<>> /\ FocusGiven(framework_focus)

\* C2: whenever the main LLM call raised, generate_response has returned the
\* degraded response: the apology prefix followed by the error text, a
\* confidence of exactly 0, no references (whatever documents were retrieved
\* or supplied), exactly one suggested action, and a processing time.
C2_DegradedResponseShape ==
    llm_error # "none" =>
        /\ Returned
        /\ DOMAIN response = FiveFields
        /\ response.response = <<ApologyPrefix, llm_error>>
        /\ response.confidence_score = 0
        /\ response.references = <<>>
        /\ Len(response.suggested_actions) = 1
        /\ response.processing_time >= 0

C2_Witness ==
    /\ Returned
    /\ llm_error # "none"
    /\ context_documents # <<>>

\* C3: a generate_response call made without supplied context documents
\* never ends by raising, whichever of its vector store queries raised.
C3_RetrievalFailureNeverSurfaces ==
    context_in = <<>> => gpc # "raised"

\* C4: every response generate_response returns has the five fields, a
\* confidence between 0 and 1 (here in hundredths) and at most 3 suggested
\* actions.
C4_ResponseShape ==
    Returned =>
        /\ DOMAIN response = FiveFields
        /\ response.confidence_score \in 0..100
        /\ Len(response.suggested_actions) <= 3

\* a success response over documents that are further than 1 and documents
\* without a distance, with more than 3 actions in the LLM's list
C4_Witness ==
    /\ Returned
    /\ llm_error = "none"
    /\ \E i \in 1..Len(context_documents) : DistanceOr1(context_documents[i]) > 100
    /\ \E i \in 1..Len(context_documents) : "distance" \notin DOMAIN context_documents[i]
    /\ action_reply.kind = "list"
    /\ Len(action_reply.items) > 3
    /\ Len(response.suggested_actions) = 3

\* the results of the queries issued so far, concatenated in the order issued
RECURSIVE IssuedResults(_)
IssuedResults(log) ==
    IF log = <<>> THEN <<>> ELSE Head(log).results \o IssuedResults(Tail(log))

\* the place element i of docs has when docs is sorted ascending by distance
\* and equal distances keep their order
StableRank(docs, i) ==
    Cardinality({j \in 1..Len(docs) :
                    \/ DistanceOr1(docs[j]) < DistanceOr1(docs[i])
                    \/ DistanceOr1(docs[j]) = DistanceOr1(docs[i]) /\ j <= i})

\* C5: after a fan-out, the list handed to context assembly is the first 5 of
\* the concatenated sub-query results sorted ascending by distance, equal
\* distances in the order of issue: at most 5 entries, non-decreasing.
C5_MergeIsStableFirstFive ==
    (FannedOut /\ gpc \in {"generate", "score", "done"}) =>
        LET merged == IssuedResults(issued)
            k == Min(5, Len(merged))
        IN  /\ Len(context_documents) = k
            /\ \A i \in 1..Len(merged) :
                  StableRank(merged, i) <= k =>
                      context_documents[StableRank(merged, i)] = merged[i]
            /\ \A i \in 1..(k - 1) :
                  context_documents[i].distance <= context_documents[i + 1].distance

\* more than 5 merged results, and two different kept ones of equal distance
\* of which the first came from the first sub-query and the other from a later
\* one
C5_Witness ==
    /\ FannedOut
    /\ gpc = "generate"
    /\ Len(IssuedResults(issued)) > 5
    /\ Len(context_documents) = 5
    /\ \E a \in 1..Len(issued[1].results) :
       \E b \in (Len(issued[1].results) + 1)..Len(IssuedResults(issued)) :
          LET merged == IssuedResults(issued)
          IN  /\ merged[a].distance = merged[b].distance
              /\ merged[a].id # merged[b].id
              /\ StableRank(merged, b) <= 5
              /\ context_documents[StableRank(merged, a)] = merged[a]
              /\ context_documents[StableRank(merged, b)] = merged[b]

\* C10: once a framework-scoped query has raised, the general query for 2
\* results is issued in its place, the results gathered so far are kept, the
\* other frameworks are still queried, and the request goes on to generation.
C10_FallbackKeepsRequestGoing ==
    \A i \in 1..Len(issued) :
        (issued[i].kind = "framework" /\ ~issued[i].ok) =>
            /\ gpc # "raised"
            /\ gpc # "fallback" =>
                  /\ i < Len(issued)
                  /\ issued[i + 1].kind = "general"
                  /\ issued[i + 1].n = 2
            /\ gpc \in {"fanout", "fallback"} =>
                  all_context_docs = IssuedResults(issued)
            /\ gpc \in {"generate", "score", "done"} =>
                  Cardinality({j \in 1..Len(issued) :
                                  issued[j].kind = "framework" /\ issued[j].ok})
                    + Cardinality({j \in 1..Len(issued) : issued[j].kind = "general"})
                    = Len(frameworks)

\* the number of results the queries issued so far asked for
RECURSIVE RequestedTotal(_)
RequestedTotal(log) ==
    IF log = <<>> THEN 0 ELSE Head(log).n + RequestedTotal(Tail(log))

\* C11: the sub-queries of a fan-out share a result budget: a framework query
\* asks for 3 results when one or two frameworks are requested and for fewer
\* when more are, so that the results requested in one request never exceed
\* what two frameworks ask for.
C11_SharedResultBudget ==
    FannedOut =>
        /\ \A i \in 1..Len(issued) :
              issued[i].kind = "framework" =>
                  /\ Len(frameworks) <= 2 => issued[i].n = 3
                  /\ Len(frameworks) > 2 => issued[i].n < 3
        /\ RequestedTotal(issued) <= 2 * 3

(***************************************************************************)
(* Claims about _select_prompt_template, checked under SpecPrompt.         *)
(***************************************************************************)
Selected == gpc = "selected"

\* the names framework_focus holds, and the recognized ones among them
FocusNames == IF FocusGiven(framework_focus) THEN ParseUpperFrameworks(framework_focus) ELSE <<>>
RecognizedAt == {i \in 1..Len(FocusNames) : FocusNames[i] \in DOMAIN FrameworkTemplates}
RecognizedNames == {FocusNames[i] : i \in RecognizedAt}

QueryHasIntent == IntentTemplate(query) # [template |-> "base"]

\* C12, as claimed: whenever exactly one recognized framework is among the
\* names of framework_focus, the template returned is that framework's.
C12_OneRecognizedFramework ==
    (Selected /\ Cardinality(RecognizedNames) = 1) =>
        prompt_template =
            [template |-> FrameworkTemplates[CHOOSE fw \in RecognizedNames : TRUE]]

\* C12, amended: whenever framework_focus holds exactly one name and that name
\* is a recognized framework, the template returned is that framework's,
\* whatever the query.
C12_SingleRecognizedName ==
    (Selected /\ Len(FocusNames) = 1 /\ RecognizedAt = {1}) =>
        prompt_template = [template |-> FrameworkTemplates[FocusNames[1]]]

\* one name that needed trimming and upper-casing, with a query that has an
\* intent of its own
C12_Witness ==
    /\ Selected
    /\ Len(FocusNames) = 1
    /\ RecognizedAt = {1}
    /\ framework_focus # <<FocusNames[1]>>
    /\ QueryHasIntent
    /\ prompt_template = [template |-> "gri"]

\* C13, as claimed: whenever framework_focus holds two or more names, the
\* template returned is the combined one, over the base template and listing
\* every name.
C13_SeveralFrameworksCombined ==
    (Selected /\ Len(FocusNames) >= 2) =>
        prompt_template = [template |-> "combined", base |-> "base",
                           frameworks |-> FocusNames]

\* C13, amended: whenever framework_focus holds two or more names of which at
\* least one is a recognized framework, the template returned is the combined
\* one, over the base template and listing every name, whatever the query.
C13_SeveralNamesOneRecognized ==
    (Selected /\ Len(FocusNames) >= 2 /\ RecognizedAt # {}) =>
        prompt_template = [template |-> "combined", base |-> "base",
                           frameworks |-> FocusNames]

\* two recognized frameworks and a name that is not, with a query that has an
\* intent of its own
C13_Witness ==
    /\ Selected
    /\ Cardinality(RecognizedNames) >= 2
    /\ Len(FocusNames) > Cardinality(RecognizedAt)
    /\ QueryHasIntent
    /\ prompt_template.template = "combined"

\* the keyword families in the order they are tried
IntentFamilies ==
    << [template |-> "report_generation",
        keywords |-> {<<"report">>, <<"draft">>, <<"write">>, <<"generate">>}],
       [template |-> "compliance",
        keywords |-> {<<"compliance">>, <<"requirement">>, <<"standard">>}],
       [template |-> "risk_management",
        keywords |-> {<<"risk">>, <<"audit">>, <<"supply", "chain">>}],
       [template |-> "benchmarking",
        keywords |-> {<<"benchmark">>, <<"compare">>, <<"peer">>}] >>

MatchingFamilies ==
    {k \in 1..Len(IntentFamilies) : MentionsAny(query, IntentFamilies[k].keywords)}

\* C14: when no name of framework_focus is a recognized framework, the
\* template is that of the earliest keyword family the lower-cased query
\* matches, and the base template when it matches none.
C14_FirstMatchingFamily ==
    (Selected /\ RecognizedAt = {}) =>
        prompt_template.template =
            IF MatchingFamilies = {} THEN "base"
            ELSE IntentFamilies[CHOOSE k \in MatchingFamilies :
                                   \A o \in MatchingFamilies : k <= o].template

\* a query of two families whose first word belongs to the later one, with
\* names that are not recognized
C14_Witness ==
    /\ Selected
    /\ Len(FocusNames) >= 1
    /\ RecognizedAt = {}
    /\ Cardinality(MatchingFamilies) >= 2
    /\ \E k \in MatchingFamilies :
          /\ MentionsPhrase(<<query[1]>>, CHOOSE p \in IntentFamilies[k].keywords :
                                             MentionsPhrase(query, p))
          /\ \E o \in MatchingFamilies : o < k

(***************************************************************************)
(* More claims about generate_response.                                    *)
(***************************************************************************)
\* the main LLM call has been made and is over
Generated == gpc \in {"score", "done"}

\* C15: retrieval runs exactly when no context documents were supplied:
\* without them at least one vector store query is issued before the LLM
\* call, whatever framework_focus is; with them none is, and the list
\* supplied is the context and the references as it is.
C15_RetrievalIffNoContext ==
    Generated =>
        /\ context_in = <<>> => Len(issued) >= 1
        /\ context_in # <<>> =>
              /\ issued = <<>>
              /\ context_documents = context_in
              /\ context = BuildContext(context_in)
              /\ (Returned /\ llm_error = "none") => response.references = context_in

\* C16: when nothing was supplied, the index is empty and every query
\* returned, the request does not fail: the context built is the sentinel, and
\* a response after an LLM success is the normal one, with confidence 0 and no
\* references.
C16_EmptyRetrievalIsNotAnError ==
    (context_in = <<>> /\ collection = <<>>
        /\ \A i \in 1..Len(issued) : issued[i].ok) =>
        /\ gpc # "raised"
        /\ IssuedResults(issued) = <<>>
        /\ Generated =>
              /\ context_documents = <<>>
              /\ context = NoDocumentsSentinel
        /\ (Returned /\ llm_error = "none") =>
              /\ response.response = ai_response
              /\ response.confidence_score = 0
              /\ response.references = <<>>
              /\ response.suggested_actions = GenerateSuggestedActions(query, action_reply)

C16_Witness ==
    /\ context_in = <<>>
    /\ collection = <<>>
    /\ Len(issued) >= 1
    /\ \A i \in 1..Len(issued) : issued[i].ok
    /\ Returned
    /\ llm_error = "none"
    /\ context = NoDocumentsSentinel

\* C17: every generate_response call eventually ends, with a response or with
\* an exception; it never waits for ever.
C17_EveryRequestFinishes == <>(gpc \in {"done", "raised"})

(***************************************************************************)
(* More claims about the vector store, checked under SpecIndex.            *)
(***************************************************************************)
\* entry `e` under id `id` is what one add_document call wrote there: the text
\* and the metadata of the same upload
WholeEntry(id, e) ==
    \E u \in DOMAIN Uploads :
        /\ id[2] + 1 \in 1..Len(UploadChunks[u])
        /\ e.document = UploadChunks[u][id[2] + 1]
        /\ e.metadata = ChunkMetadata(id[1], id[2], Uploads[u].metadata)

\* C18: whatever add_document and delete_document calls ran before it, a
\* search sees whole entries only (text and metadata of one write), returns
\* them as the index holds them when it runs, and returns as many matching
\* entries as it was asked for and the index has.
C18_SearchSeesWholeEntries ==
    ret.op = "search" =>
        /\ \A i \in 1..Len(ret.value) :
              /\ ret.value[i].id \in DOMAIN collection
              /\ collection[ret.value[i].id] = [document |-> ret.value[i].content,
                                                metadata |-> ret.value[i].metadata]
              /\ WholeEntry(ret.value[i].id, collection[ret.value[i].id])
              /\ Matches(collection[ret.value[i].id], ret.where)
        /\ Len(ret.value) =
              Min(ret.n, Cardinality({id \in DOMAIN collection :
                                         Matches(collection[id], ret.where)}))

\* a search that returned an entry of a document whose chunks were written by
\* different add_document calls
C18_Witness ==
    /\ ret.op = "search"
    /\ \E i \in 1..Len(ret.value) :
          \E id \in DOMAIN collection :
              /\ id[1] = ret.value[i].id[1]
              /\ collection[id].metadata.category # ret.value[i].metadata.category

\* C19: search (with or without a framework or category filter) and
\* get_document_chunks, the only calls the query path makes on the index,
\* leave the collection as it was.
C19_QueriesDoNotWrite ==
    [][ret'.op \in {"search", "get_document_chunks"} => collection' = collection]_vars

C19_Witness ==
    /\ ret.op = "search"
    /\ ret.where # NoFilter
    /\ Len(ret.value) >= 1
    /\ Cardinality(DOMAIN collection) >= 2

(***************************************************************************)
(* Claims about get_collection_stats, checked under SpecStats.             *)
(***************************************************************************)
IndexedEntries == Cardinality(DOMAIN collection)

\* C20, as claimed: whatever add_document and delete_document calls ran,
\* get_collection_stats returns the number of indexed entries as total_chunks,
\* and its counts by category and its counts by framework each sum to it.
C20_StatsSumToTotal ==
    ret.op = "get_collection_stats" =>
        /\ ret.value.total_chunks = IndexedEntries
        /\ SumOver(ret.value.categories, DOMAIN ret.value.categories) = IndexedEntries
        /\ SumOver(ret.value.frameworks, DOMAIN ret.value.frameworks) = IndexedEntries

\* C20, amended: total_chunks is the number of indexed entries, and the counts
\* by category and the counts by framework each sum to the smaller of
\* total_chunks and the 1000 entries the statistics are counted over.
C20_StatsSumToSample ==
    ret.op = "get_collection_stats" =>
        /\ ret.value.total_chunks = IndexedEntries
        /\ SumOver(ret.value.categories, DOMAIN ret.value.categories)
              = Min(IndexedEntries, SampleLimit)
        /\ SumOver(ret.value.frameworks, DOMAIN ret.value.frameworks)
              = Min(IndexedEntries, SampleLimit)

\* statistics of an index of more than 1000 entries, of several categories,
\* some with a framework and some without
C20_Witness ==
    /\ ret.op = "get_collection_stats"
    /\ IndexedEntries > SampleLimit
    /\ Cardinality(DOMAIN ret.value.categories) >= 2
    /\ UnknownFramework \in DOMAIN ret.value.frameworks
    /\ GRI \in DOMAIN ret.value.frameworks

(***************************************************************************)
(* The scoring step of generate_response on its own: the request has got   *)
(* its context documents and the main LLM call has returned a text.        *)
(***************************************************************************)
\* the most documents a scored request has as context
MaxDocs == 3

\* distances, in hundredths, of the documents scored
ScoreDistances == {0, 10, 33, 100, 150}

\* a document with each of the distances, and one without a distance
ScoredDocs ==
    LET chunk == [content |-> <<"g", "1", ".">>,
                  metadata |-> ChunkMetadata("g1", 0, GenUploads[1].metadata),
                  id |-> ChunkId("g1", 0)]
    IN  {chunk} \cup {chunk @@ [distance |-> d] : d \in ScoreDistances}

ScoredContexts == UNION {[1..n -> ScoredDocs] : n \in 0..MaxDocs}

\* generate_response at line 74: documents passed by the caller were used as
\* they are; with none passed, one search of an empty collection found none
InitScore ==
    /\ query \in PromptQueries
    /\ context_documents \in ScoredContexts
    /\ context_in = context_documents
    /\ framework_focus = <<>>
    /\ gpc = "score"
    /\ frameworks = <<>> /\ fw_i = 0 /\ all_context_docs = <<>>
    /\ ai_response \in {CleanResponse(t) : t \in LLMTexts}
    /\ llm_error = "none" /\ action_reply = [kind |-> "none"]
    /\ distances = <<>>
    /\ issued = IF context_in = <<>>
                THEN <<[kind |-> "general", n |-> 5, where |-> NoFilter,
                        ok |-> TRUE, results |-> <<>>]>>
                ELSE <<>>
    /\ clock = Len(issued) + 1
    /\ response = [kind |-> "none"]
    /\ context = BuildContext(context_documents)
    /\ prompt_template = SelectPromptTemplate(query, framework_focus)
    /\ collection = <<>>
    /\ dup_policy = "ignore"
    /\ ret = [op |-> "none"]
    /\ ChunkIdle

NextScore == Score

SpecScore == InitScore /\ [][NextScore]_vars

(***************************************************************************)
(* Claims about the states of a request and about its scoring.             *)
(***************************************************************************)
\* the state of the request's state machine: a request waiting for an LLM
\* call is in the state that issued the call; a request that ended with an
\* exception leaving generate_response is in none of the five
Stage(p, text, err) ==
    CASE p \in {"call", "fanout", "fallback"} -> "ASSEMBLING_CONTEXT"
      [] p = "generate" -> "GENERATING"
      [] p = "score" -> "SCORING"
      [] p = "awaiting_llm" -> IF text = <<>> THEN "GENERATING" ELSE "SCORING"
      [] p = "done" -> IF err = "none" THEN "DONE" ELSE "FAILED"
      [] OTHER -> "RAISED"

StageOrder ==
    {<<"ASSEMBLING_CONTEXT", "GENERATING">>, <<"GENERATING", "SCORING">>,
     <<"SCORING", "DONE">>, <<"ASSEMBLING_CONTEXT", "FAILED">>,
     <<"GENERATING", "FAILED">>, <<"SCORING", "FAILED">>}

\* C21: every step of a request keeps its state or moves it along
\* ASSEMBLING_CONTEXT, GENERATING, SCORING, DONE, or from a state before DONE
\* to FAILED: the LLM is called only once all queries have returned,
\* scoring follows only a successful LLM call, DONE and FAILED are final,
\* the one response is emitted exactly on entering DONE or FAILED, and
\* FAILED carries the degraded response.  (A request never leaves these
\* states by an exception.)
C21_RequestStateOrder ==
    [][LET s == Stage(gpc, ai_response, llm_error)
           t == Stage(gpc', ai_response', llm_error')
       IN  /\ s = t \/ <<s, t>> \in StageOrder
           /\ s \in {"DONE", "FAILED"} => (t = s /\ response' = response)
           /\ (t \in {"DONE", "FAILED"}) = (DOMAIN response' = FiveFields)
           /\ t = "GENERATING" => \A i \in 1..Len(issued') : issued'[i].ok
                                    \/ i < Len(issued')
           /\ t = "FAILED" => /\ response'.response[1] = ApologyPrefix
                              /\ response'.confidence_score = 0]_vars

\* the sum of the distances of docs, a document without one counting 1.0
RECURSIVE DistanceSum(_)
DistanceSum(docs) ==
    IF docs = <<>> THEN 0
    ELSE (IF "distance" \in DOMAIN Head(docs) THEN Head(docs).distance ELSE 100)
           + DistanceSum(Tail(docs))

\* C22: the confidence of a successful response is 1 minus the mean distance
\* of the context documents (a document without a distance counting 1.0),
\* clamped to 0..1 and rounded to the nearest hundredth; one document at
\* distance 0.1 gives 0.9, no documents give 0.0.
C22_ConfidenceIsClampedMean ==
    (Returned /\ llm_error = "none") =>
        LET n == Len(context_documents)
            c == Max(0, Min(100 * n, 100 * n - DistanceSum(context_documents)))
            s == response.confidence_score
        IN  /\ s \in 0..100
            /\ n = 0 => s = 0
            /\ n > 0 => (2 * (s * n - c) <= n /\ 2 * (c - s * n) <= n)
            /\ (n = 1 /\ DistanceSum(context_documents) = 10) => s = 90

C22_Witness ==
    /\ Returned
    /\ llm_error = "none"
    /\ Len(context_documents) = 1
    /\ "distance" \in DOMAIN context_documents[1]
    /\ context_documents[1].distance = 10
    /\ response.confidence_score = 90

\* the three actions of the first of the report, compliance and risk
\* families that the query mentions, the three generic ones if it mentions
\* none
KeywordActions(q) ==
    IF \E i \in 1..Len(q) : Lower(q[i]) \in {"report", "draft"}
    THEN <<"Review the generated content for accuracy",
           "Add specific company data and metrics",
           "Align with your company's sustainability strategy">>
    ELSE IF \E i \in 1..Len(q) : Lower(q[i]) \in {"compliance", "requirement"}
    THEN <<"Verify requirements with your legal team",
           "Check for updates to the relevant framework",
           "Schedule a compliance review meeting">>
    ELSE IF \E i \in 1..Len(q) : Lower(q[i]) \in {"risk", "audit"}
    THEN <<"Conduct a detailed risk assessment",
           "Review your supply chain policies",
           "Update your risk management procedures">>
    ELSE <<"Ask follow-up questions for more specific guidance",
           "Upload additional documents for context",
           "Request a detailed analysis of your ESG data">>

\* C23 as stated: the suggested actions of a successful response are the
\* keyword actions of its query, whatever the follow-up LLM call returned.
C23_ActionsFromQueryAlone ==
    (Returned /\ llm_error = "none") =>
        response.suggested_actions = KeywordActions(query)

\* C23, amended: the suggested actions of a successful response are the
\* first 3 items of the JSON list the follow-up LLM call returned; they are
\* the keyword actions of the query (the first matching family's three, or
\* the three generic ones) only when that call raised or returned no JSON
\* list.
C23_ActionsFromListOrKeywords ==
    (Returned /\ llm_error = "none") =>
        IF action_reply.kind = "list"
        THEN /\ Len(response.suggested_actions) = Min(3, Len(action_reply.items))
             /\ \A i \in 1..Len(response.suggested_actions) :
                   response.suggested_actions[i] = action_reply.items[i]
        ELSE response.suggested_actions = KeywordActions(query)

C23_Witness ==
    /\ Returned
    /\ llm_error = "none"
    /\ action_reply.kind = "list"
    /\ Len(action_reply.items) > 0
    /\ response.suggested_actions # KeywordActions(query)
    /\ \E i \in 1..Len(query) : Lower(query[i]) \in {"report", "draft"}
    /\ \E i \in 1..Len(query) : Lower(query[i]) \in {"risk", "audit"}

\* C26: when the main LLM call returned and the follow-up call raised or
\* returned something other than a JSON list, generate_response has
\* returned the generated text, the confidence of the context documents,
\* all of them as references and the keyword actions of the query.
C26_ActionFailureKeepsAnswer ==
    (gpc = "done" /\ action_reply.kind \in {"raised", "not json", "json object"}) =>
        /\ llm_error = "none"
        /\ DOMAIN response = FiveFields
        /\ response.response = ai_response
        /\ response.response # <<>> => response.response[1] # ApologyPrefix
        /\ response.confidence_score = CalculateConfidence(context_documents)
        /\ response.references = context_documents
        /\ response.suggested_actions = KeywordActions(query)

C26_Witness ==
    /\ gpc = "done"
    /\ action_reply.kind = "raised"
    /\ Len(issued) > 1
    /\ context_documents # <<>>
    /\ response.confidence_score > 0
    /\ response.references = context_documents

(***************************************************************************)
(* Claims about the windows of the chunking loop, checked under SpecChunk. *)
(***************************************************************************)
\* the 0-based place of the last period or newline of w, -1 with none
LastBoundary(w) ==
    LET at == {i \in 1..Len(w) : w[i] \in {".", "\n"}}
    IN  IF at = {} THEN 0 - 1 ELSE (CHOOSE i \in at : \A j \in at : j <= i) - 1

\* C24: every window cut so far whose right edge is before the end of the
\* text, the first and the later ones alike, ends just after its last
\* period or newline when that lies past the window's midpoint, and is the
\* full chunk_size wide otherwise.
C24_EveryWindowAdjusted ==
    \A k \in 1..Len(windows) :
        LET s == windows[k][1]
            e == windows[k][2]
            bp == LastBoundary(PySlice(content, s, s + chunk_size))
        IN  s + chunk_size < Len(content) =>
                IF bp > chunk_size \div 2
                THEN e = s + bp + 1
                ELSE e = s + chunk_size

\* the characters of the text that windows w1 and w2 both cover
CommonChars(w1, w2) ==
    Cardinality({i \in 0..(Len(content) - 1) :
                    /\ w1[1] <= i /\ i < w1[2]
                    /\ w2[1] <= i /\ i < w2[2]})

\* C25: every window after the first starts `overlap` characters before the
\* end of the window before it, every two consecutive windows, the last two
\* included, have exactly `overlap` characters of the text in common, and
\* the loop has stopped exactly when the start has reached the text length.
C25_ConsecutiveWindowsOverlap ==
    /\ \A k \in 1..(Len(windows) - 1) :
          /\ windows[k + 1][1] = windows[k][2] - overlap
          /\ CommonChars(windows[k], windows[k + 1]) = overlap
    /\ windows # <<>> => ((cpc = "done") = (start >= Len(content)))

\* C27: the references of a response whose documents came from a fan-out
\* never hold the same chunk id twice, whatever the framework list and
\* whichever framework queries failed and were replaced by general ones.
C27_FanoutReferencesDistinct ==
    (FannedOut /\ Returned /\ llm_error = "none") =>
        \A i, j \in 1..Len(response.references) :
            response.references[i].id = response.references[j].id => i = j

ServeFocus == {<<>>, <<GRI>>, <<GRI, <<" ">> \o TCFD>>}

\* the documents deleted while the request runs
ServeDeletes == {"g1", "t1"}

InitServe ==
    /\ InitGen
    /\ query = <<"hello">>
    /\ framework_focus \in ServeFocus
    /\ Len(context_in) <= 1
    /\ collection = IndexedUploads(Len(GenUploads))

ConcurrentDeleteStep ==
    /\ \E d \in ServeDeletes, fails \in BOOLEAN : DeleteDocument(d, fails)
    /\ UNCHANGED <<chunkVars, genVars>>

NextServe == NextGen \/ ConcurrentDeleteStep

SpecServe == InitServe /\ [][NextServe]_vars

\* C29 as stated: at the step that returns the response, every chunk listed
\* in its references is an entry of the collection.
C29_ReferencesNeverStale ==
    [][(gpc' = "done" /\ gpc # "done") =>
          \A i \in 1..Len(response'.references) :
              response'.references[i].id \in DOMAIN collection']_vars

\* C29, amended: every result of a vector store query of the request is an
\* entry of the collection, with that text and metadata, at the step the
\* query returns, and the references of a response whose documents were
\* retrieved are results of the request's queries; a document deleted
\* between the query and the return stays in the references.
C29_ReferencesPresentWhenRetrieved ==
    [][/\ issued' # issued =>
             LET q == issued'[Len(issued')]
             IN  \A i \in 1..Len(q.results) :
                     /\ q.results[i].id \in DOMAIN collection
                     /\ collection[q.results[i].id].document = q.results[i].content
                     /\ collection[q.results[i].id].metadata = q.results[i].metadata
       /\ (gpc' = "done" /\ gpc # "done" /\ context_in = <<>>) =>
             \A i \in 1..Len(response'.references) :
                 \E j \in 1..Len(issued') : \E k \in 1..Len(issued'[j].results) :
                     response'.references[i] = issued'[j].results[k]]_vars

\* a request about to return holds a retrieved chunk that has been deleted
C29_Witness ==
    /\ gpc = "score"
    /\ context_in = <<>>
    /\ ret.op = "delete_document"
    /\ \E i \in 1..Len(context_documents) :
          /\ context_documents[i].id \notin DOMAIN collection
          /\ \E j \in 1..Len(issued) : \E k \in 1..Len(issued[j].results) :
                context_documents[i] = issued[j].results[k]

\* C30: an add_document call that returned, for a text of n chunks, returned
\* the n ids of the document's chunks 0..n-1 in that order, all different,
\* each now an entry of the collection with that document_id and its own
\* chunk_index, so that get_document_chunks lists the document's chunks by
\* chunk_index 0, 1, 2, ... without a gap; for an empty text it returned the
\* empty list and left the collection as it was.
C30_ChunkIdsWellFormed ==
    [][(ret'.op = "add_document" /\ ~ret'.raised) =>
          LET d == ret'.document_id
              n == Len(UploadChunks[ret'.upload])
              v == ret'.value
              g == GetDocumentChunks(collection', d)
          IN  /\ Len(v) = n
              /\ \A i \in 1..n :
                    /\ v[i] = ChunkId(d, i - 1)
                    /\ \A j \in 1..n : v[i] = v[j] => i = j
                    /\ v[i] \in DOMAIN collection'
                    /\ collection'[v[i]].metadata.document_id = d
                    /\ collection'[v[i]].metadata.chunk_index = i - 1
              /\ Len(g) >= n
              /\ \A k \in 1..Len(g) :
                    /\ g[k].metadata.chunk_index = k - 1
                    /\ g[k].metadata.document_id = d
              /\ \A k \in 1..n : g[k].id = v[k]
              /\ n = 0 => (v = <<>> /\ collection' = collection)]_vars

\* a new document of more than one chunk has been added
C30_Witness ==
    /\ ret.op = "add_document"
    /\ ~ret.raised
    /\ ret.had = 0
    /\ Len(ret.value) > 1
    /\ \A i \in 1..Len(ret.value) : ret.value[i] \in DOMAIN collection

============================================================================
